---------------------------- MODULE Spec2Model ----------------------------
(***************************************************************************)
(* Model of the data layer of hackOrSnooze (src/hackOrSnooze/js/models.js):*)
(* StoryList (getStories, addStory, removeStory) and User                  *)
(* (loginViaStoredCredentials, addFavorite, removeFavorite, isFavorite).   *)
(*                                                                         *)
(* A Story is represented by its storyId: Story objects are never mutated  *)
(* after construction and every comparison in the code is on storyId.      *)
(* Every async method is split at its `await axios(...)`: the part before  *)
(* the await is the call action, the part after it is the resume action.   *)
(* Between the two the gateway answers the request (ok or err); requests   *)
(* are answered and their callers resumed in any order.                    *)
(***************************************************************************)
EXTENDS Integers, Sequences, FiniteSets, Bags, TLC

(* ----------------------------- bounds ---------------------------------- *)

\* largest storyId the gateway hands out
MaxId == 2
\* largest length of user.favorites for which addFavorite is still explored
MaxFavLen == 2
\* largest number of requests in flight at the same time
MaxPending == 2

(* ------------------------ gateway's initial data ----------------------- *)

\* credentials a caller may pass; the gateway accepts only ValidToken
Tokens == {"tokA", "tokB"}
ValidToken == "tokA"
NoToken == "none"

StoryIds == 1..MaxId

VARIABLES
  stories,      \* storyList.stories (sequence of storyId)
  loaded,       \* TRUE once the global storyList has been assigned
  ownStories,   \* user.ownStories
  favorites,    \* user.favorites
  loginToken,   \* user.loginToken, NoToken while no User has been built
  calls,        \* requests in flight (a bag: identical requests may overlap)
  srvStories,   \* gateway: the stories it holds, most recent first
  nextId,       \* gateway: the storyId the next created story gets
  srvFavs,      \* gateway: storyIds recorded as this user's favorites
  undone,       \* history: the story s whose addFavorite(s), removeFavorite(s)
                \* are the two most recent calls, made back to back; else 0
  last          \* history: the caller-side event of the last step, if any

vars == <<stories, loaded, ownStories, favorites, loginToken, calls,
          srvStories, nextId, srvFavs, undone, last>>

(* ----------------------------- helpers --------------------------------- *)

Range(s) == {s[i] : i \in DOMAIN s}

\* mutant: push instead of unshift
UnshiftAtEnd(s, e) == Append(s, e)

\* Array.prototype.unshift
Unshift(s, e) == <<e>> \o s

\* mutant: splice out the first match only
RECURSIVE FilterFirstOnly(_, _)
FilterFirstOnly(s, storyId) ==
  IF s = <<>> THEN <<>>
  ELSE IF Head(s) = storyId THEN Tail(s)
  ELSE <<Head(s)>> \o FilterFirstOnly(Tail(s), storyId)

\* Array.prototype.filter(s => s.storyId !== storyId)
Filter(s, storyId) == SelectSeq(s, LAMBDA e : e # storyId)

\* mutant: compare the first entry only
SomeFirstOnly(s, storyId) == s # <<>> /\ Head(s) = storyId

\* Array.prototype.some(s => s.storyId === storyId): scans from the front
\* and stops at the first match
RECURSIVE Some(_, _)
Some(s, storyId) ==
  IF s = <<>> THEN FALSE
  ELSE IF Head(s) = storyId THEN TRUE
  ELSE Some(Tail(s), storyId)

\* mutant: each Story is unshifted onto the result instead of mapped in place
RECURSIVE AsStoriesReversed(_)
AsStoriesReversed(records) ==
  IF records = <<>> THEN <<>>
  ELSE AsStoriesReversed(Tail(records)) \o <<Head(records)>>

\* response.data.stories.map(story => new Story(story)): one Story per
\* record, carrying the record's storyId, in the records' order
RECURSIVE AsStories(_)
AsStories(records) ==
  IF records = <<>> THEN <<>>
  ELSE <<Head(records)>> \o AsStories(Tail(records))

\* a set of storyIds as the gateway lists it (ascending storyId)
RECURSIVE SetToSeq(_)
SetToSeq(S) ==
  IF S = {} THEN <<>>
  ELSE LET m == CHOOSE x \in S : \A y \in S : x <= y
       IN <<m>> \o SetToSeq(S \ {m})

Call(op, id, token) == [op |-> op, id |-> id, st |-> "sent", token |-> token]

NoCall == [op |-> "none", id |-> 0, thrown |-> FALSE, ret |-> "void"]

\* the event "call c was made"
Called(c, note) == [op |-> c.op, id |-> c.id, thrown |-> FALSE, ret |-> note]

\* the event "call c returned ret"
Returned(c, ret) == [op |-> c.op, id |-> c.id, thrown |-> FALSE, ret |-> ret]

\* the event "call c threw the request's error"
Threw(c) == [op |-> c.op, id |-> c.id, thrown |-> TRUE, ret |-> "void"]

InFlight == BagToSet(calls)

Pending(op) == \E c \in InFlight : c.op = op

\* Story instances the caller can hold: built from a record the gateway
\* has delivered (the page's stories, the profile, an addStory result)
Known(id) ==
  /\ id < nextId
  /\ loaded \/ loginToken # NoToken
  /\ ~ \E c \in InFlight : c.op = "addStory" /\ c.st = "ok" /\ c.id = id

\* the stories n, ..., 1 as the gateway lists them
RECURSIVE Newest(_)
Newest(n) == IF n = 0 THEN <<>> ELSE <<n>> \o Newest(n - 1)

\* axios(...) is started: the request is in flight until it is answered
Issue(c) ==
  /\ BagCardinality(calls) < MaxPending
  /\ calls' = calls (+) SetToBag({c})

\* the awaiting caller is resumed with the answer
Settle(c) == calls' = calls (-) SetToBag({c})

(* --------------------------- the gateway ------------------------------- *)

\* a request is answered successfully: its effect on the gateway's data.
\* The gateway is the system of record: it numbers created stories 1, 2, ...
\* and lists the newest first; a deleted story is no one's favorite any more.
\* Whether it accepts a given request is not constrained here (any request
\* may be accepted or fail), except that a stored login needs ValidToken.
GatewayOk(c) ==
  /\ c.st = "sent"
  /\ c.op = "loginViaStoredCredentials" => c.token = ValidToken
  /\ c.op = "addStory" => nextId <= MaxId
  /\ calls' = (calls (-) SetToBag({c})) (+)
              SetToBag({[c EXCEPT !.st = "ok",
                                  !.id = IF c.op = "addStory" THEN nextId ELSE c.id]})
  /\ nextId' = IF c.op = "addStory" THEN nextId + 1 ELSE nextId
  /\ srvStories' = CASE c.op = "addStory" -> <<nextId>> \o srvStories
                     [] c.op = "removeStory" ->
                          SelectSeq(srvStories, LAMBDA e : e # c.id)
                     [] OTHER -> srvStories
  /\ srvFavs' = CASE c.op = "addFavorite" -> srvFavs \cup {c.id}
                  [] c.op = "removeFavorite" -> srvFavs \ {c.id}
                  [] c.op = "removeStory" -> srvFavs \ {c.id}
                  [] OTHER -> srvFavs
  /\ UNCHANGED <<stories, loaded, ownStories, favorites, loginToken,
                 undone, last>>

\* a rejected request or a transport failure: the gateway's data is untouched
GatewayErr(c) ==
  /\ c.st = "sent"
  /\ calls' = (calls (-) SetToBag({c})) (+) SetToBag({[c EXCEPT !.st = "err"]})
  /\ UNCHANGED <<stories, loaded, ownStories, favorites, loginToken,
                 srvStories, nextId, srvFavs, undone, last>>

(* --------------------------- StoryList --------------------------------- *)

getStoriesCall ==
  /\ ~loaded
  /\ ~Pending("getStories")
  /\ Issue(Call("getStories", 0, NoToken))
  /\ undone' = 0
  /\ last' = NoCall
  /\ UNCHANGED <<stories, loaded, ownStories, favorites, loginToken,
                 srvStories, nextId, srvFavs>>

\* getAndShowStoriesOnStart: storyList = await StoryList.getStories().
\* No story request can be made before storyList exists, so the list the
\* gateway sent is the list it holds when the call resumes.
getStoriesResume(c) ==
  /\ c.op = "getStories"
  /\ c.st # "sent"
  /\ Settle(c)
  /\ IF c.st = "ok"
     THEN /\ stories' = AsStories(srvStories)
          /\ loaded' = TRUE
          /\ last' = Returned(c, "storyList")
     ELSE /\ UNCHANGED <<stories, loaded>>
          /\ last' = Threw(c)
  /\ UNCHANGED <<ownStories, favorites, loginToken, srvStories, nextId, srvFavs, undone>>

addStoryCall ==
  /\ loaded
  /\ loginToken # NoToken
  /\ Issue(Call("addStory", 0, loginToken))
  /\ undone' = 0
  /\ last' = NoCall
  /\ UNCHANGED <<stories, loaded, ownStories, favorites, loginToken,
                 srvStories, nextId, srvFavs>>

\* mutant: the arrays are read before the await and unshifted afterwards;
\* when removeStory has just replaced them, the new story goes to the
\* arrays it dropped
addStoryResumeStaleArrays(c) ==
  /\ c.op = "addStory"
  /\ c.st # "sent"
  /\ Settle(c)
  /\ IF c.st = "ok"
     THEN /\ IF last.op = "removeStory" /\ ~last.thrown
             THEN UNCHANGED <<stories, ownStories>>
             ELSE /\ stories' = Unshift(stories, c.id)
                  /\ ownStories' = Unshift(ownStories, c.id)
          /\ last' = Returned(c, "story")
     ELSE /\ UNCHANGED <<stories, ownStories>>
          /\ last' = Threw(c)
  /\ UNCHANGED <<loaded, favorites, loginToken, srvStories, nextId, srvFavs,
                 undone>>

\* mutant: both unshifts go to this.stories, none to user.ownStories
addStoryResumeTwice(c) ==
  /\ c.op = "addStory"
  /\ c.st # "sent"
  /\ Settle(c)
  /\ IF c.st = "ok"
     THEN /\ stories' = Unshift(Unshift(stories, c.id), c.id)
          /\ UNCHANGED ownStories
          /\ last' = Returned(c, "story")
     ELSE /\ UNCHANGED <<stories, ownStories>>
          /\ last' = Threw(c)
  /\ UNCHANGED <<loaded, favorites, loginToken, srvStories, nextId, srvFavs,
                 undone>>

\* mutant: the request's error is caught and the call returns normally
addStoryResumeCatches(c) ==
  /\ c.op = "addStory"
  /\ c.st # "sent"
  /\ Settle(c)
  /\ IF c.st = "ok"
     THEN /\ stories' = Unshift(stories, c.id)
          /\ ownStories' = Unshift(ownStories, c.id)
          /\ last' = Returned(c, "story")
     ELSE /\ UNCHANGED <<stories, ownStories>>
          /\ last' = Returned(c, "undefined")
  /\ UNCHANGED <<loaded, favorites, loginToken, srvStories, nextId, srvFavs,
                 undone>>

addStoryResume(c) ==
  /\ c.op = "addStory"
  /\ c.st # "sent"
  /\ Settle(c)
  /\ IF c.st = "ok"
     THEN /\ stories' = Unshift(stories, c.id)
          /\ ownStories' = Unshift(ownStories, c.id)
          /\ last' = Returned(c, "story")
     ELSE /\ UNCHANGED <<stories, ownStories>>
          /\ last' = Threw(c)
  /\ UNCHANGED <<loaded, favorites, loginToken, srvStories, nextId, srvFavs, undone>>

\* mutant: the collections are filtered before the request is made
removeStoryCallOptimistic(storyId) ==
  /\ loaded
  /\ loginToken # NoToken
  /\ Known(storyId)
  /\ Issue(Call("removeStory", storyId, loginToken))
  /\ stories' = Filter(stories, storyId)
  /\ ownStories' = Filter(ownStories, storyId)
  /\ favorites' = Filter(favorites, storyId)
  /\ undone' = 0
  /\ last' = NoCall
  /\ UNCHANGED <<loaded, loginToken, srvStories, nextId, srvFavs>>

removeStoryCall(storyId) ==
  /\ loaded
  /\ loginToken # NoToken
  /\ Known(storyId)
  /\ Issue(Call("removeStory", storyId, loginToken))
  /\ undone' = 0
  /\ last' = NoCall
  /\ UNCHANGED <<stories, loaded, ownStories, favorites, loginToken,
                 srvStories, nextId, srvFavs>>

\* mutant: the filter of user.ownStories tests === instead of !==
removeStoryResumeInvertedOwn(c) ==
  /\ c.op = "removeStory"
  /\ c.st # "sent"
  /\ Settle(c)
  /\ IF c.st = "ok"
     THEN /\ stories' = Filter(stories, c.id)
          /\ ownStories' = SelectSeq(ownStories, LAMBDA e : e = c.id)
          /\ favorites' = Filter(favorites, c.id)
          /\ last' = Returned(c, "void")
     ELSE /\ UNCHANGED <<stories, ownStories, favorites>>
          /\ last' = Threw(c)
  /\ UNCHANGED <<loaded, loginToken, srvStories, nextId, srvFavs, undone>>

\* mutant: user.favorites is not filtered
removeStoryResumeKeepsFavorites(c) ==
  /\ c.op = "removeStory"
  /\ c.st # "sent"
  /\ Settle(c)
  /\ IF c.st = "ok"
     THEN /\ stories' = Filter(stories, c.id)
          /\ ownStories' = Filter(ownStories, c.id)
          /\ last' = Returned(c, "void")
     ELSE /\ UNCHANGED <<stories, ownStories>>
          /\ last' = Threw(c)
  /\ UNCHANGED <<loaded, favorites, loginToken, srvStories, nextId, srvFavs,
                 undone>>

\* mutant: the collections are filtered before the request is answered
\* successfully (optimistic delete)
removeStoryResumeAlways(c) ==
  /\ c.op = "removeStory"
  /\ c.st # "sent"
  /\ Settle(c)
  /\ stories' = Filter(stories, c.id)
  /\ ownStories' = Filter(ownStories, c.id)
  /\ favorites' = Filter(favorites, c.id)
  /\ last' = IF c.st = "ok" THEN Returned(c, "void") ELSE Threw(c)
  /\ UNCHANGED <<loaded, loginToken, srvStories, nextId, srvFavs, undone>>

removeStoryResume(c) ==
  /\ c.op = "removeStory"
  /\ c.st # "sent"
  /\ Settle(c)
  /\ IF c.st = "ok"
     THEN /\ stories' = Filter(stories, c.id)
          /\ ownStories' = Filter(ownStories, c.id)
          /\ favorites' = Filter(favorites, c.id)
          /\ last' = Returned(c, "void")
     ELSE /\ UNCHANGED <<stories, ownStories, favorites>>
          /\ last' = Threw(c)
  /\ UNCHANGED <<loaded, loginToken, srvStories, nextId, srvFavs, undone>>

(* ------------------------------ User ----------------------------------- *)

loginViaStoredCredentialsCall(token) ==
  /\ loginToken = NoToken
  /\ ~Pending("loginViaStoredCredentials")
  /\ Issue(Call("loginViaStoredCredentials", 0, token))
  /\ undone' = 0
  /\ last' = NoCall
  /\ UNCHANGED <<stories, loaded, ownStories, favorites, loginToken,
                 srvStories, nextId, srvFavs>>

\* mutant: no try/catch around the request
loginViaStoredCredentialsResumeThrows(c) ==
  /\ c.op = "loginViaStoredCredentials"
  /\ c.st # "sent"
  /\ Settle(c)
  /\ IF c.st = "ok"
     THEN /\ favorites' = SetToSeq(srvFavs)
          /\ ownStories' = srvStories
          /\ loginToken' = c.token
          /\ last' = Returned(c, "user")
     ELSE /\ UNCHANGED <<favorites, ownStories, loginToken>>
          /\ last' = Threw(c)
  /\ UNCHANGED <<stories, loaded, srvStories, nextId, srvFavs, undone>>

\* No favorite request can be made before a User exists, so the profile the
\* gateway sent is the gateway's data at the time the call resumes.
loginViaStoredCredentialsResume(c) ==
  /\ c.op = "loginViaStoredCredentials"
  /\ c.st # "sent"
  /\ Settle(c)
  /\ IF c.st = "ok"
     THEN /\ favorites' = SetToSeq(srvFavs)
          /\ ownStories' = srvStories
          /\ loginToken' = c.token
          /\ last' = Returned(c, "user")
     ELSE /\ UNCHANGED <<favorites, ownStories, loginToken>>
          /\ last' = Returned(c, "null")
  /\ UNCHANGED <<stories, loaded, srvStories, nextId, srvFavs, undone>>

addFavorite(storyId) ==
  /\ loginToken # NoToken
  /\ Known(storyId)
  /\ Len(favorites) < MaxFavLen
  /\ favorites' = Append(favorites, storyId)
  /\ Issue(Call("addFavorite", storyId, loginToken))
  /\ undone' = 0
  /\ last' = Called(Call("addFavorite", storyId, loginToken),
                    IF storyId \in Range(favorites) THEN "present" ELSE "absent")
  /\ UNCHANGED <<stories, loaded, ownStories, loginToken, srvStories, nextId, srvFavs>>

\* history note of a removeFavorite call: how many entries it found
Found(s, storyId) ==
  LET n == Cardinality({i \in DOMAIN s : s[i] = storyId})
  IN IF n = 0 THEN "absent" ELSE IF n = 1 THEN "present" ELSE "several"

\* mutant: user.ownStories is filtered as well
removeFavoriteAlsoOwn(storyId) ==
  /\ loginToken # NoToken
  /\ Known(storyId)
  /\ favorites' = Filter(favorites, storyId)
  /\ ownStories' = Filter(ownStories, storyId)
  /\ Issue(Call("removeFavorite", storyId, loginToken))
  /\ undone' = IF last = Called(Call("addFavorite", storyId, loginToken), "absent")
               THEN storyId ELSE 0
  /\ last' = Called(Call("removeFavorite", storyId, loginToken),
                    Found(favorites, storyId))
  /\ UNCHANGED <<stories, loaded, loginToken, srvStories, nextId, srvFavs>>

\* mutant: a story that is not a favorite is an error, raised before any
\* request is made
removeFavoriteThrowsIfAbsent(storyId) ==
  /\ loginToken # NoToken
  /\ Known(storyId)
  /\ IF storyId \in Range(favorites)
     THEN /\ favorites' = Filter(favorites, storyId)
          /\ Issue(Call("removeFavorite", storyId, loginToken))
          /\ last' = Called(Call("removeFavorite", storyId, loginToken),
                            Found(favorites, storyId))
     ELSE /\ UNCHANGED <<favorites, calls>>
          /\ last' = Threw(Call("removeFavorite", storyId, loginToken))
  /\ undone' = IF last = Called(Call("addFavorite", storyId, loginToken), "absent")
               THEN storyId ELSE 0
  /\ UNCHANGED <<stories, loaded, ownStories, loginToken, srvStories, nextId, srvFavs>>

\* mutant: favorites.splice(favorites.findIndex(...), 1): takes out the
\* first match only, and the last entry when there is no match (index -1)
removeFavoriteSplice(storyId) ==
  /\ loginToken # NoToken
  /\ Known(storyId)
  /\ favorites' = IF storyId \in Range(favorites)
                  THEN FilterFirstOnly(favorites, storyId)
                  ELSE SubSeq(favorites, 1, Len(favorites) - 1)
  /\ Issue(Call("removeFavorite", storyId, loginToken))
  /\ undone' = IF last = Called(Call("addFavorite", storyId, loginToken), "absent")
               THEN storyId ELSE 0
  /\ last' = Called(Call("removeFavorite", storyId, loginToken),
                    Found(favorites, storyId))
  /\ UNCHANGED <<stories, loaded, ownStories, loginToken, srvStories, nextId, srvFavs>>

removeFavorite(storyId) ==
  /\ loginToken # NoToken
  /\ Known(storyId)
  /\ favorites' = Filter(favorites, storyId)
  /\ Issue(Call("removeFavorite", storyId, loginToken))
  /\ undone' = IF last = Called(Call("addFavorite", storyId, loginToken), "absent")
               THEN storyId ELSE 0
  /\ last' = Called(Call("removeFavorite", storyId, loginToken),
                    Found(favorites, storyId))
  /\ UNCHANGED <<stories, loaded, ownStories, loginToken, srvStories, nextId, srvFavs>>

\* mutant: a failed "add" is rolled back
addOrRemoveFavoriteResumeUndoesAdd(c) ==
  /\ c.op \in {"addFavorite", "removeFavorite"}
  /\ c.st # "sent"
  /\ Settle(c)
  /\ favorites' = IF c.st = "err" /\ c.op = "addFavorite"
                  THEN Filter(favorites, c.id) ELSE favorites
  /\ last' = IF c.st = "ok" THEN Returned(c, "void") ELSE Threw(c)
  /\ UNCHANGED <<stories, loaded, ownStories, loginToken,
                 srvStories, nextId, srvFavs, undone>>

\* mutant: a failed "remove" is rolled back
addOrRemoveFavoriteResumeUndoesRemove(c) ==
  /\ c.op \in {"addFavorite", "removeFavorite"}
  /\ c.st # "sent"
  /\ Settle(c)
  /\ favorites' = IF c.st = "err" /\ c.op = "removeFavorite"
                  THEN Append(favorites, c.id) ELSE favorites
  /\ last' = IF c.st = "ok" THEN Returned(c, "void") ELSE Threw(c)
  /\ UNCHANGED <<stories, loaded, ownStories, loginToken,
                 srvStories, nextId, srvFavs, undone>>

\* the rest of addFavorite / removeFavorite once the request made by
\* _addOrRemoveFavorite is answered
addOrRemoveFavoriteResume(c) ==
  /\ c.op \in {"addFavorite", "removeFavorite"}
  /\ c.st # "sent"
  /\ Settle(c)
  /\ last' = IF c.st = "ok" THEN Returned(c, "void") ELSE Threw(c)
  /\ UNCHANGED <<stories, loaded, ownStories, favorites, loginToken,
                 srvStories, nextId, srvFavs, undone>>

isFavorite(storyId) ==
  /\ loginToken # NoToken
  /\ Known(storyId)
  /\ last' = [op |-> "isFavorite", id |-> storyId, thrown |-> FALSE,
              ret |-> IF Some(favorites, storyId) THEN "true" ELSE "false"]
  /\ UNCHANGED <<stories, loaded, ownStories, favorites, loginToken, calls,
                 srvStories, nextId, srvFavs, undone>>

(* --------------------------- specification ----------------------------- *)

Init ==
  /\ stories = <<>>
  /\ loaded = FALSE
  /\ ownStories = <<>>
  /\ favorites = <<>>
  /\ loginToken = NoToken
  /\ calls = EmptyBag
  /\ srvStories \in {Newest(n) : n \in 0..MaxId}
  /\ nextId = Len(srvStories) + 1
  /\ srvFavs \in SUBSET Range(srvStories)
  /\ undone = 0
  /\ last = NoCall

Next ==
  \/ getStoriesCall
  \/ addStoryCall
  \/ \E id \in StoryIds : removeStoryCall(id)
  \/ \E t \in Tokens : loginViaStoredCredentialsCall(t)
  \/ \E id \in StoryIds : addFavorite(id)
  \/ \E id \in StoryIds : removeFavorite(id)
  \/ \E id \in StoryIds : isFavorite(id)
  \/ \E c \in InFlight : GatewayOk(c)
  \/ \E c \in InFlight : GatewayErr(c)
  \/ \E c \in InFlight : getStoriesResume(c)
  \/ \E c \in InFlight : addStoryResume(c)
  \/ \E c \in InFlight : removeStoryResume(c)
  \/ \E c \in InFlight : loginViaStoredCredentialsResume(c)
  \/ \E c \in InFlight : addOrRemoveFavoriteResume(c)

Spec == Init /\ [][Next]_vars

(* ------------------------------ claims --------------------------------- *)

Collections == <<stories, ownStories, favorites>>

Holds(s, id) == \E i \in DOMAIN s : s[i] = id

\* the step in which the caller of c is resumed with the request's answer
Resumes(c) == c.st # "sent" /\ calls' = calls (-) SetToBag({c})

\* the step in which op(id) is called and its request started
Calls(op, id) == calls' = calls (+) SetToBag({Call(op, id, loginToken)})

\* C1: in the state right after removeStory(user, id) returned successfully,
\* none of stories, user.ownStories and user.favorites has an entry with
\* storyId id.
C1_RemovedEverywhere ==
  (last.op = "removeStory" /\ ~last.thrown) =>
    /\ ~Holds(stories, last.id)
    /\ ~Holds(ownStories, last.id)
    /\ ~Holds(favorites, last.id)

\* removeStory(id) returned successfully while an addFavorite(id), which had
\* pushed id into favorites, is still waiting for its answer
C1_Witness ==
  /\ last.op = "removeStory" /\ ~last.thrown
  /\ \E c \in InFlight : c.op = "addFavorite" /\ c.id = last.id
  /\ loaded

\* C2: when the delete request of removeStory fails, the call throws the
\* error and neither that step nor the call step changes stories,
\* ownStories or favorites.
C2_FailedRemoveStoryChangesNothing ==
  [][/\ \A c \in InFlight :
          (c.op = "removeStory" /\ c.st = "err" /\ Resumes(c)) =>
            (last' = Threw(c) /\ UNCHANGED Collections)
     /\ \A id \in StoryIds :
          Calls("removeStory", id) => UNCHANGED Collections]_vars

\* removeStory(id) threw and id is still in all three collections
C2_Witness ==
  /\ last.op = "removeStory" /\ last.thrown
  /\ Holds(stories, last.id)
  /\ Holds(ownStories, last.id)
  /\ Holds(favorites, last.id)

\* C3: when addStory returns successfully, the returned story is the first
\* element of stories and of ownStories, followed by the elements that were
\* there before, in their order.
C3_AddStoryPrepends ==
  [][\A c \in InFlight :
        (c.op = "addStory" /\ c.st = "ok" /\ Resumes(c)) =>
          /\ last' = Returned(c, "story")
          /\ stories' # <<>> /\ Head(stories') = c.id
          /\ Tail(stories') = stories
          /\ ownStories' # <<>> /\ Head(ownStories') = c.id
          /\ Tail(ownStories') = ownStories]_vars

\* addStory returned a story that now heads both collections, in front of
\* an older story
C3_Witness ==
  /\ last.op = "addStory" /\ ~last.thrown
  /\ Len(stories) >= 2 /\ Head(stories) = last.id
  /\ Len(ownStories) >= 2 /\ Head(ownStories) = last.id

\* C4: when the create request of addStory fails, the call throws and
\* stories and ownStories are unchanged; and no step of a running session
\* puts a story into one of the two collections without putting it into
\* the other.
C4_FailedAddStoryChangesNothing ==
  [][/\ \A c \in InFlight :
          (c.op = "addStory" /\ c.st = "err" /\ Resumes(c)) =>
            (last' = Threw(c) /\ UNCHANGED <<stories, ownStories>>)
     /\ (loaded /\ loginToken # NoToken) =>
          (Range(stories') \ Range(stories)) =
          (Range(ownStories') \ Range(ownStories))]_vars

\* addStory threw while the collections hold the older stories
C4_Witness ==
  /\ last.op = "addStory" /\ last.thrown
  /\ stories # <<>>
  /\ stories = ownStories

\* C5: addFavorite(s) appends s to favorites in the step that starts its
\* request; when the request fails the call throws and favorites is left
\* as it is (no rollback).
C5_AddFavoriteOptimistic ==
  [][/\ \A id \in StoryIds :
          Calls("addFavorite", id) => favorites' = favorites \o <<id>>
     /\ \A c \in InFlight :
          (c.op = "addFavorite" /\ c.st = "err" /\ Resumes(c)) =>
            (last' = Threw(c) /\ UNCHANGED favorites)]_vars

\* addFavorite(s) threw and s is in favorites although the gateway does not
\* record it
C5_Witness ==
  /\ last.op = "addFavorite" /\ last.thrown
  /\ Holds(favorites, last.id)
  /\ last.id \notin srvFavs

\* C6: removeFavorite(s) removes every entry with s.storyId from favorites
\* in the step that starts its request (and nothing else); when the request
\* fails the call throws and favorites is left as it is.
C6_RemoveFavoriteOptimistic ==
  [][/\ \A id \in StoryIds :
          Calls("removeFavorite", id) =>
            /\ ~Holds(favorites', id)
            /\ Len(favorites') = Cardinality({i \in DOMAIN favorites : favorites[i] # id})
            /\ \A i, j \in DOMAIN favorites' :
                 i < j => \E k, l \in DOMAIN favorites :
                            k < l /\ favorites[k] = favorites'[i]
                                  /\ favorites[l] = favorites'[j]
            /\ Range(favorites') = Range(favorites) \ {id}
     /\ \A c \in InFlight :
          (c.op = "removeFavorite" /\ c.st = "err" /\ Resumes(c)) =>
            (last' = Threw(c) /\ UNCHANGED favorites)]_vars

\* removeFavorite(s) threw: s is gone from favorites although the gateway
\* still records it
C6_Witness ==
  /\ last.op = "removeFavorite" /\ last.thrown
  /\ ~Holds(favorites, last.id)
  /\ last.id \in srvFavs

\* C7: once addFavorite(s), for s absent from favorites, and removeFavorite(s)
\* have been called back to back, favorites has no entry s, whatever the
\* answers to the two requests and their order, until the next call.
C7_AddThenRemoveLeavesAbsent ==
  undone # 0 => ~Holds(favorites, undone)

\* both requests are answered, the "add" last and successfully, after the
\* "remove": the gateway records s, favorites does not hold it
C7_Witness ==
  /\ undone # 0
  /\ calls = EmptyBag
  /\ last = [op |-> "addFavorite", id |-> undone, thrown |-> FALSE, ret |-> "void"]
  /\ undone \in srvFavs
  /\ ~Holds(favorites, undone)

NoDuplicates(s) == \A i, j \in DOMAIN s : s[i] = s[j] => i = j

\* C8: favorites and ownStories never hold two entries with the same
\* storyId.
C8_NoDuplicateStoryId ==
  NoDuplicates(favorites) /\ NoDuplicates(ownStories)

\* C9: loginViaStoredCredentials never throws: when its request fails it
\* returns null and builds no User, when it succeeds it returns a User whose
\* loginToken is the token passed in.
C9_StoredLoginNeverThrows ==
  [][\A c \in InFlight :
        (c.op = "loginViaStoredCredentials" /\ Resumes(c)) =>
          /\ ~last'.thrown
          /\ c.st = "err" => (last'.ret = "null" /\ loginToken' = NoToken)
          /\ c.st = "ok" => (last'.ret = "user" /\ loginToken' = c.token
                                               /\ c.token \in Tokens)]_vars

\* a stored login returned null and no User exists
C9_Witness ==
  /\ last.op = "loginViaStoredCredentials"
  /\ last.ret = "null"
  /\ loginToken = NoToken

\* C10: isFavorite(s) returns true exactly when favorites has an entry with
\* s.storyId, and changes no collection.
C10_IsFavoriteIsMembership ==
  [][(last'.op = "isFavorite") =>
        /\ (last'.ret = "true") <=> (last'.id \in Range(favorites))
        /\ last'.ret \in {"true", "false"}
        /\ ~last'.thrown
        /\ UNCHANGED Collections]_vars

\* isFavorite(s) returned true for an s that is not the first favorite
C10_Witness ==
  /\ last.op = "isFavorite" /\ last.ret = "true"
  /\ Len(favorites) >= 2
  /\ Head(favorites) # last.id

\* C11: addStory and removeStory change stories, ownStories and favorites
\* only in the step in which they resume with a successful answer: their
\* call steps and the gateway's steps change no collection, and once the
\* page is loaded and a User exists every change of stories or ownStories
\* is such a resume.
C11_MutationOnlyAfterConfirmation ==
  [][/\ (Calls("addStory", 0) \/ \E id \in StoryIds : Calls("removeStory", id))
          => UNCHANGED Collections
     /\ (BagCardinality(calls') = BagCardinality(calls) /\ calls' # calls)
          => UNCHANGED Collections
     /\ (loaded /\ loginToken # NoToken /\
         <<stories, ownStories>>' # <<stories, ownStories>>)
          => \E c \in InFlight :
               /\ c.op \in {"addStory", "removeStory"}
               /\ c.st = "ok"
               /\ Resumes(c)]_vars

\* the gateway has created a story and deleted another one, neither caller
\* has resumed yet: the collections still show the state before both
C11_Witness ==
  /\ \E c \in InFlight :
       c.op = "addStory" /\ c.st = "ok" /\ ~Holds(stories, c.id)
                         /\ ~Holds(ownStories, c.id)
  /\ \E c \in InFlight :
       c.op = "removeStory" /\ c.st = "ok" /\ Holds(stories, c.id)
                            /\ Holds(ownStories, c.id)
                            /\ ~Holds(srvStories, c.id)

\* C12: no two entries of storyList.stories have the same storyId (the
\* gateway numbers every created story afresh and lists each story once).
C12_UniqueStoryIds ==
  NoDuplicates(stories)

\* addStory has returned and nothing is in flight: stories holds at least
\* two stories, the ones the gateway lists
C12_Witness ==
  /\ last.op = "addStory" /\ ~last.thrown
  /\ calls = EmptyBag
  /\ Len(stories) >= 2
  /\ Range(stories) = Range(srvStories)
  /\ nextId > Len(srvStories)

\* the gateway numbers stories in the order it creates them
MostRecentFirst(s) == \A i, j \in DOMAIN s : i < j => s[i] > s[j]

\* C13: the stories in storyList.stories and in user.ownStories are in
\* most-recent-first order of their creation by the gateway, also when
\* addStory calls overlap and are answered in another order than created.
C13_MostRecentFirst ==
  MostRecentFirst(stories) /\ MostRecentFirst(ownStories)

\* C14: when the request of getStories succeeds, the new StoryList has one
\* Story per record of the gateway's list, the i-th with the i-th record's
\* storyId, and is assigned to storyList; when it fails the call throws and
\* no StoryList is assigned.
C14_GetStoriesKeepsServerOrder ==
  [][\A c \in InFlight :
        (c.op = "getStories" /\ Resumes(c)) =>
          /\ c.st = "ok" =>
               /\ last' = Returned(c, "storyList")
               /\ loaded'
               /\ Len(stories') = Len(srvStories)
               /\ \A i \in 1..Len(srvStories) : stories'[i] = srvStories[i]
          /\ c.st = "err" =>
               /\ last' = Threw(c)
               /\ ~loaded'
               /\ stories' = stories]_vars

\* getStories returned the gateway's two records, in the gateway's order
C14_Witness ==
  /\ last.op = "getStories" /\ ~last.thrown
  /\ loaded
  /\ Len(stories) = 2
  /\ stories = srvStories

FavoriteOps == {"addFavorite", "removeFavorite"}

\* C15: addFavorite and removeFavorite change only favorites: neither their
\* call step nor their resume step, with a successful or a failed answer,
\* changes stories or ownStories.
C15_FavoriteOpsTouchOnlyFavorites ==
  [][/\ \A id \in StoryIds : \A op \in FavoriteOps :
          Calls(op, id) => UNCHANGED <<stories, ownStories>>
     /\ \A c \in InFlight :
          (c.op \in FavoriteOps /\ Resumes(c)) =>
            UNCHANGED <<stories, ownStories>>]_vars

\* removeFavorite(s) returned and s is still in stories and in ownStories
C15_Witness ==
  /\ last.op = "removeFavorite" /\ ~last.thrown /\ last.ret = "void"
  /\ Holds(stories, last.id)
  /\ Holds(ownStories, last.id)
  /\ ~Holds(favorites, last.id)

\* C16: removeFavorite(s) for an s that is not in favorites leaves favorites
\* as it is and still makes its request; removeFavorite throws only when
\* it resumes with a failed request, never before the request is made.
C16_RemoveAbsentFavoriteIsNoOp ==
  [][/\ \A id \in StoryIds :
          (Calls("removeFavorite", id) /\ ~Holds(favorites, id)) =>
            /\ favorites' = favorites
            /\ ~last'.thrown
     /\ (last'.op = "removeFavorite" /\ last'.thrown /\ last' # last) =>
          \E c \in InFlight :
            c.op = "removeFavorite" /\ c.st = "err" /\ Resumes(c)
     /\ \A id \in StoryIds :
          (last'.op = "removeFavorite" /\ last'.id = id /\ ~last'.thrown
             /\ last'.ret # "void" /\ last' # last) =>
            Calls("removeFavorite", id)]_vars

\* removeFavorite(s) was called twice in a row, the second time for an s
\* that is not in favorites; both requests are in flight
C16_Witness ==
  /\ last.op = "removeFavorite" /\ last.ret = "absent"
  /\ \E c \in InFlight :
       /\ c.op = "removeFavorite" /\ c.id = last.id /\ c.st = "sent"
       /\ CopiesIn(c, calls) = 2
  /\ favorites # <<>>

\* in which of stories, ownStories, favorites the story id is, now and
\* after the step
Member(id) ==
  <<Holds(stories, id), Holds(ownStories, id), Holds(favorites, id)>>

MemberAfter(id) ==
  <<Holds(stories', id), Holds(ownStories', id), Holds(favorites', id)>>

\* C17: no mutation undoes another one: a successful addStory puts its
\* story into stories and ownStories, a successful removeStory takes its
\* story out of all three collections, addFavorite / removeFavorite put
\* their story into / take it out of favorites, and each of them leaves
\* every other story where it is in every collection, whatever else is
\* pending and in whatever order the answers arrive.
C17_NoLostUpdate ==
  [][/\ \A c \in InFlight :
          (c.op \in {"addStory", "removeStory"} /\ c.st = "ok" /\ Resumes(c)) =>
            /\ \A id \in StoryIds \ {c.id} : MemberAfter(id) = Member(id)
            /\ c.op = "addStory" =>
                 (Holds(stories', c.id) /\ Holds(ownStories', c.id))
            /\ c.op = "removeStory" =>
                 MemberAfter(c.id) = <<FALSE, FALSE, FALSE>>
     /\ \A id \in StoryIds : \A op \in FavoriteOps :
          Calls(op, id) =>
            /\ \A other \in StoryIds \ {id} : MemberAfter(other) = Member(other)
            /\ Holds(favorites', id) <=> (op = "addFavorite")
     /\ \A c \in InFlight :
          (c.op \in FavoriteOps /\ Resumes(c)) => UNCHANGED Collections]_vars

\* removeStory has returned while the addStory that overlapped it, and that
\* the gateway has accepted, is about to resume: the removed story is gone
\* from the page and from the gateway, the new one is on the gateway only
C17_Witness ==
  /\ last.op = "removeStory" /\ ~last.thrown
  /\ Member(last.id) = <<FALSE, FALSE, FALSE>>
  /\ \E c \in InFlight :
       /\ c.op = "addStory" /\ c.st = "ok" /\ c.id # last.id
       /\ srvStories = <<c.id>>

\* a request other than a favorite request fails
GatewayErrOther(c) == c.op \notin FavoriteOps /\ GatewayErr(c)

\* the sessions in which every favorite request succeeds
NextFavOk ==
  \/ getStoriesCall
  \/ addStoryCall
  \/ \E id \in StoryIds : removeStoryCall(id)
  \/ \E t \in Tokens : loginViaStoredCredentialsCall(t)
  \/ \E id \in StoryIds : addFavorite(id)
  \/ \E id \in StoryIds : removeFavorite(id)
  \/ \E id \in StoryIds : isFavorite(id)
  \/ \E c \in InFlight : GatewayOk(c)
  \/ \E c \in InFlight : GatewayErrOther(c)
  \/ \E c \in InFlight : getStoriesResume(c)
  \/ \E c \in InFlight : addStoryResume(c)
  \/ \E c \in InFlight : removeStoryResume(c)
  \/ \E c \in InFlight : loginViaStoredCredentialsResume(c)
  \/ \E c \in InFlight : addOrRemoveFavoriteResume(c)

SpecFavOk == Init /\ [][NextFavOk]_vars

\* C18: when every favorite request succeeds and no request is pending, the
\* storyIds in user.favorites are the storyIds the gateway records as this
\* user's favorites.
C18_FavoritesMatchGateway ==
  (loginToken # NoToken /\ calls = EmptyBag) => Range(favorites) = srvFavs

\* new is old with the entries equal to id taken out and nothing else
\* changed: the k-th entry of new is the k-th entry of old that differs
\* from id
IsOldWithout(new, old, id) ==
  LET keep == {i \in DOMAIN old : old[i] # id}
      Nth(k) == CHOOSE i \in keep : Cardinality({j \in keep : j <= i}) = k
  IN /\ Len(new) = Cardinality(keep)
     /\ \A k \in 1..Cardinality(keep) : new[k] = old[Nth(k)]

\* C19: a successful removeStory(user, id) takes out of stories, ownStories
\* and favorites the entries with storyId id and no other: the other
\* entries stay, in their order; for an id that is in none of the three,
\* all three stay as they are.
C19_RemoveStoryRemovesOnlyThatStory ==
  [][\A c \in InFlight :
        (c.op = "removeStory" /\ c.st = "ok" /\ Resumes(c)) =>
          /\ IsOldWithout(stories', stories, c.id)
          /\ IsOldWithout(ownStories', ownStories, c.id)
          /\ IsOldWithout(favorites', favorites, c.id)
          /\ Member(c.id) = <<FALSE, FALSE, FALSE>> => UNCHANGED Collections]_vars

\* removeStory(id) returned and each collection still holds another story
C19_Witness ==
  /\ last.op = "removeStory" /\ ~last.thrown
  /\ stories # <<>>
  /\ ownStories # <<>>
  /\ favorites # <<>>
  /\ ~Holds(srvStories, last.id)

\* C20: right after removeFavorite(s) is called, isFavorite(s) is false,
\* however many entries with s.storyId favorites held before the call.
C20_RemoveFavoriteRemovesAll ==
  (last.op = "removeFavorite" /\ last.ret \in {"absent", "present", "several"})
    => ~Some(favorites, last.id)

\* removeFavorite(s) has just been called on favorites that held s more
\* than once
C20_Witness ==
  /\ last.op = "removeFavorite" /\ last.ret = "several"
  /\ ~Holds(favorites, last.id)

=============================================================================
